---------------------------- MODULE Spec2Model ----------------------------
(***************************************************************************)
(* Model of the DevOps Social backend (src/backend/main.py): a FastAPI     *)
(* service with a startup hook and four handlers over one PostgreSQL       *)
(* table, posts(id SERIAL PRIMARY KEY, username VARCHAR(100), content      *)
(* TEXT, created_at TIMESTAMP DEFAULT CURRENT_TIMESTAMP).                  *)
(*                                                                         *)
(* Every handler is a chain of steps, one per statement that talks to the  *)
(* database: get_db()/conn.cursor(), cur.execute()/fetch, conn.commit(),   *)
(* cur.close()/conn.close()/return.  Requests run in the slots of Procs    *)
(* and interleave between steps.  A step that talks to the server may      *)
(* raise (the server is unreachable, the connection drops, the statement   *)
(* is refused); the handlers catch nothing, so the exception leaves the    *)
(* handler at once and the statements after it are not executed.           *)
(*                                                                         *)
(* conn.cursor(), cur.fetchone()/fetchall(), cur.close() and conn.close()  *)
(* act on the client's side of the connection; they are taken together     *)
(* with the server-side statement before them and do not raise.  A slot    *)
(* keeps the request it ran last, with its response, until the next        *)
(* request begins in it.                                                   *)
(***************************************************************************)
EXTENDS Integers, Sequences, FiniteSets, TLC

\* ------------------------------------------------------------- bounds
MaxNew == 2       \* ids drawn from the sequence, starting from no table
MaxNewLoaded == 1 \* ids drawn from the sequence on top of a filled table
MaxTick == 1      \* clock ticks after the initial instant
PreRows == 50     \* rows of a table that outlived an earlier process

\* ---------------------------------------------------- program constants
Limit == 50             \* get_posts: LIMIT 50
VarcharLimit == 100     \* startup: username VARCHAR(100)

\* The slots that run requests: two requests in flight at once.
Procs == {1, 2}

\* The columns CREATE TABLE gives the table.
Columns ==
  << [name |-> "id",         type |-> "SERIAL PRIMARY KEY"],
     [name |-> "username",   type |-> "VARCHAR(100)"],
     [name |-> "content",    type |-> "TEXT"],
     [name |-> "created_at", type |-> "TIMESTAMP DEFAULT CURRENT_TIMESTAMP"] >>
NoTable == << >>

\* ------------------------------------------------------ request bodies
\* A JSON value of a request body: a string, a non-string, or no value.
JStr(s) == [t |-> "str", v |-> s]
JNum == [t |-> "num", v |-> "123"]
JAbsent == [t |-> "absent", v |-> ""]

LongName ==
  "aaaaaaaaaaaaaaaaaaaaaaaaaaaaaaaaaaaaaaaaaaaaaaaaaaaaaaaaaaaaaaaaaaaaaaaaaaaaaaaaaaaaaaaaaaaaaaaaaaaaa"

NoBody == [username |-> JAbsent, content |-> JAbsent]
ValidBodies ==
  { [username |-> JStr(""),       content |-> JStr("")],
    [username |-> JStr(LongName), content |-> JStr("hello")] }
InvalidBodies ==
  { [username |-> JAbsent,        content |-> JStr("hello")],
    [username |-> JStr("alice"),  content |-> JAbsent],
    [username |-> JNum,           content |-> JStr("hello")] }
Bodies == ValidBodies \cup InvalidBodies

\* Faulty variant of ValidatePost: content is not required.
ValidateUsernameOnly(body) == body.username.t = "str"

\* class Post(BaseModel): username: str, content: str.  Both fields are
\* required and each must be a JSON string.
ValidatePost(body) == body.username.t = "str" /\ body.content.t = "str"

\* ------------------------------------------------------------ storage
VARIABLES
  schema,      \* the columns of table posts, NoTable while it does not exist
  rows,        \* the committed rows of posts, in commit order
  seq,         \* last value drawn from the sequence behind id SERIAL
  clock,       \* the server's clock, the source of CURRENT_TIMESTAMP
  serving,     \* startup() has returned: the application accepts requests
  req,         \* per slot: the request it runs and the handler's locals
  base,        \* number of rows the table held when the behaviour began
  committed    \* history: how many INSERTs of create_post were committed

vars == <<schema, rows, seq, clock, serving, req, base, committed>>

NoRow == [id |-> 0, username |-> "", content |-> "", created_at |-> 0]
Idle ==
  [op |-> "idle", pc |-> "idle", body |-> NoBody, conn |-> "none",
   pending |-> "none", row |-> NoRow, val |-> 0, ret |-> << >>, status |-> 0,
   err |-> "none"]

\* The greatest id of a sequence of rows, 0 for none.
MaxId(rs) ==
  LET ids == {rs[i].id : i \in 1..Len(rs)} \cup {0}
  IN CHOOSE m \in ids : \A k \in ids : k <= m

\* A table that earlier runs of the service filled, one post per tick.
Preloaded(n) ==
  [i \in 1..n |-> [id |-> i, username |-> "alice", content |-> "hello",
                   created_at |-> i]]

Init ==
  /\ base = 0
  /\ schema = IF base = 0 THEN NoTable ELSE Columns
  /\ rows = Preloaded(base)
  /\ seq = base
  /\ clock = base
  /\ serving = FALSE
  /\ req = [p \in Procs |-> Idle]
  /\ committed = base

\* ------------------------------------------------------------- helpers
Ended(p) == req[p].pc \in {"done", "failed"}
Free(p) == req[p].pc = "idle" \/ Ended(p)
Set(p, r) == req' = [req EXCEPT ![p] = r]

\* The handler raised: the exception leaves it at the statement that raised,
\* so neither cur.close() nor conn.close() runs.
Raise(r, e) == [r EXCEPT !.pc = "failed", !.status = 500, !.err = e,
                         !.pending = "none", !.row = NoRow]

\* Ids drawn, or about to be drawn, in this behaviour.
Drawing == Cardinality({p \in Procs : req[p].op = "create"
                                      /\ req[p].pc \in {"connect", "execute"}})
NewIds == seq - base
Budget == IF base = 0 THEN MaxNew ELSE MaxNewLoaded

\* The server's clock: it ticks, or is set back (clock skew).
Tick ==
  /\ clock < base + MaxTick
  /\ clock >= base \/ clock < MaxTick
  /\ clock' = clock + 1
  /\ UNCHANGED <<schema, rows, seq, serving, req, base, committed>>

ClockSkew ==
  /\ clock > 0
  /\ clock' = 0
  /\ UNCHANGED <<schema, rows, seq, serving, req, base, committed>>

\* get_db() then conn.cursor(): a fresh connection for this request.
GetDb(p) ==
  /\ req[p].pc = "connect"
  /\ Set(p, [req[p] EXCEPT !.conn = "open", !.pc = "execute"])
  /\ UNCHANGED <<schema, rows, seq, clock, serving, base, committed>>

\* psycopg2.connect raises: no connection was opened.
GetDbFails(p) ==
  /\ req[p].pc = "connect"
  /\ Set(p, Raise(req[p], "OperationalError"))
  /\ UNCHANGED <<schema, rows, seq, clock, serving, base, committed>>

\* cur.close(); conn.close(); return.
CloseAndReturn(r, ret) ==
  [r EXCEPT !.conn = "closed", !.pc = "done", !.status = 200, !.ret = ret]

\* ------------------------------------------------------------- startup
BeginStartup(p) ==
  /\ Free(p)
  /\ Set(p, [Idle EXCEPT !.op = "startup", !.pc = "connect"])
  /\ UNCHANGED <<schema, rows, seq, clock, serving, base, committed>>

\* CREATE TABLE IF NOT EXISTS posts (...): nothing when the table exists;
\* otherwise the new table is part of this transaction until it commits, and
\* a second CREATE of the same name waits for that transaction.
CreateTableIfNotExists(p) ==
  /\ req[p].op = "startup" /\ req[p].pc = "execute"
  /\ \A q \in Procs : req[q].pending # "table"
  /\ Set(p, [req[p] EXCEPT !.pc = "commit",
                           !.pending = IF schema = NoTable THEN "table" ELSE "none"])
  /\ UNCHANGED <<schema, rows, seq, clock, serving, base, committed>>

\* Faulty variant of StartupCommit: the table is dropped and created anew.
StartupCommitRecreate(p) ==
  /\ req[p].op = "startup" /\ req[p].pc = "commit"
  /\ schema' = Columns
  /\ rows' = << >>
  /\ Set(p, [req[p] EXCEPT !.pc = "close", !.pending = "none"])
  /\ UNCHANGED <<seq, clock, serving, base, committed>>

\* Faulty variant of StartupCommit: the sequence behind id starts over.
StartupCommitRestartSeq(p) ==
  /\ req[p].op = "startup" /\ req[p].pc = "commit"
  /\ schema' = IF req[p].pending = "table" THEN Columns ELSE schema
  /\ seq' = base
  /\ Set(p, [req[p] EXCEPT !.pc = "close", !.pending = "none"])
  /\ UNCHANGED <<rows, clock, serving, base, committed>>

\* conn.commit(): a table created by this transaction now exists for all.
StartupCommit(p) ==
  /\ req[p].op = "startup" /\ req[p].pc = "commit"
  /\ schema' = IF req[p].pending = "table" THEN Columns ELSE schema
  /\ Set(p, [req[p] EXCEPT !.pc = "close", !.pending = "none"])
  /\ UNCHANGED <<rows, seq, clock, serving, base, committed>>

\* cur.close(); conn.close(): startup is over and requests are accepted.
StartupClose(p) ==
  /\ req[p].op = "startup" /\ req[p].pc = "close"
  /\ Set(p, CloseAndReturn(req[p], << >>))
  /\ serving' = TRUE
  /\ UNCHANGED <<schema, rows, seq, clock, base, committed>>

\* A server-side step of startup() raises.  When commit() raises, the server
\* may or may not have made the transaction durable before the connection broke.
StartupExecuteFails(p) ==
  /\ req[p].op = "startup" /\ req[p].pc = "execute"
  /\ Set(p, Raise(req[p], "OperationalError"))
  /\ UNCHANGED <<schema, rows, seq, clock, serving, base, committed>>

StartupCommitFails(p) ==
  /\ req[p].op = "startup" /\ req[p].pc = "commit"
  /\ \E durable \in BOOLEAN :
       schema' = IF durable /\ req[p].pending = "table" THEN Columns ELSE schema
  /\ Set(p, Raise(req[p], "OperationalError"))
  /\ UNCHANGED <<rows, seq, clock, serving, base, committed>>

\* ------------------------------------------------------------- GET /
RootMessage == [message |-> "DevOps Social API is live!"]

\* Faulty variant of ReadRoot: the handler opens a connection like the others.
ReadRootViaDb(p) ==
  /\ Free(p) /\ serving
  /\ Set(p, [Idle EXCEPT !.op = "root", !.pc = "connect"])
  /\ UNCHANGED <<schema, rows, seq, clock, serving, base, committed>>

ReadRoot(p) ==
  /\ Free(p) /\ serving
  /\ Set(p, [Idle EXCEPT !.op = "root", !.pc = "done", !.status = 200,
                         !.ret = RootMessage])
  /\ UNCHANGED <<schema, rows, seq, clock, serving, base, committed>>

\* -------------------------------------------------------- POST /posts
\* FastAPI validates the body against Post before it calls the handler; a body
\* that fails is answered 422 and create_post is never entered.
BeginCreate(p) ==
  /\ Free(p) /\ serving
  /\ NewIds + Drawing < Budget
  /\ \E body \in Bodies :
       Set(p, IF ValidatePost(body)
              THEN [Idle EXCEPT !.op = "create", !.pc = "connect", !.body = body]
              ELSE [Idle EXCEPT !.op = "create", !.pc = "failed", !.body = body,
                                !.status = 422, !.err = "validation"])
  /\ UNCHANGED <<schema, rows, seq, clock, serving, base, committed>>

\* Faulty variant of NextVal: the sequence hands out its last value again.
NextValStale(s) == IF s = 0 THEN 1 ELSE s

\* nextval of the sequence behind id SERIAL.
NextVal(s) == s + 1

\* Assignment to a VARCHAR(n) column: a longer value is refused.
FitsVarchar(s, n) == Len(s) <= n

\* Faulty variant of InsertPost: the connection is in autocommit mode, so the
\* row is committed by the INSERT itself.
InsertPostAutocommit(p) ==
  /\ req[p].op = "create" /\ req[p].pc = "execute"
  /\ FitsVarchar(req[p].body.username.v, VarcharLimit)
  /\ seq' = NextVal(seq)
  /\ rows' = Append(rows, [id |-> seq', username |-> req[p].body.username.v,
                           content |-> req[p].body.content.v, created_at |-> clock])
  /\ committed' = committed + 1
  /\ Set(p, [req[p] EXCEPT !.pc = "commit", !.pending = "row", !.val = seq',
                           !.row = rows'[Len(rows')]])
  /\ UNCHANGED <<schema, clock, serving, base>>

\* INSERT INTO posts (username, content) VALUES (%s, %s) RETURNING id, then
\* post_id = cur.fetchone()[0].  The row is part of the connection's
\* transaction until commit; created_at defaults to CURRENT_TIMESTAMP.  The
\* sequence is not transactional: a value drawn is never handed out again.
InsertPost(p) ==
  /\ req[p].op = "create" /\ req[p].pc = "execute"
  /\ LET username == req[p].body.username.v
         content == req[p].body.content.v
         id == NextVal(seq)
     IN IF FitsVarchar(username, VarcharLimit)
        THEN /\ seq' = id
             /\ Set(p, [req[p] EXCEPT !.pc = "commit", !.pending = "row", !.val = id,
                          !.row = [id |-> id, username |-> username,
                                   content |-> content, created_at |-> clock]])
        ELSE /\ seq' \in {seq, id}
             /\ Set(p, Raise(req[p], "DataError"))
  /\ UNCHANGED <<schema, rows, clock, serving, base, committed>>

InsertFails(p) ==
  /\ req[p].op = "create" /\ req[p].pc = "execute"
  /\ seq' \in {seq, NextVal(seq)}
  /\ Set(p, Raise(req[p], "OperationalError"))
  /\ UNCHANGED <<schema, rows, clock, serving, base, committed>>

\* conn.commit(): the row becomes visible to every other connection.
CommitPost(p) ==
  /\ req[p].op = "create" /\ req[p].pc = "commit"
  /\ rows' = Append(rows, req[p].row)
  /\ committed' = committed + 1
  /\ Set(p, [req[p] EXCEPT !.pc = "close", !.pending = "none", !.row = NoRow])
  /\ UNCHANGED <<schema, seq, clock, serving, base>>

CommitPostFails(p) ==
  /\ req[p].op = "create" /\ req[p].pc = "commit"
  /\ \E durable \in BOOLEAN :
       /\ rows' = IF durable THEN Append(rows, req[p].row) ELSE rows
       /\ committed' = IF durable THEN committed + 1 ELSE committed
  /\ Set(p, Raise(req[p], "OperationalError"))
  /\ UNCHANGED <<schema, seq, clock, serving, base>>

CreateReturn(p) ==
  /\ req[p].op = "create" /\ req[p].pc = "close"
  /\ Set(p, CloseAndReturn(req[p], [id |-> req[p].val, message |-> "Post created!"]))
  /\ UNCHANGED <<schema, rows, seq, clock, serving, base, committed>>

\* --------------------------------------------------------- GET /posts
BeginList(p) ==
  /\ Free(p) /\ serving
  /\ Set(p, [Idle EXCEPT !.op = "list", !.pc = "connect"])
  /\ UNCHANGED <<schema, rows, seq, clock, serving, base, committed>>

\* ORDER BY created_at DESC.  The order of rows with equal created_at is the
\* server's choice; tie stands for it: by id ascending or descending.
Before(a, b, tie) ==
  \/ a.created_at > b.created_at
  \/ a.created_at = b.created_at /\ (IF tie THEN a.id < b.id ELSE a.id > b.id)

\* Faulty variant of OrderByCreatedAtDesc: ORDER BY created_at ASC.
OrderByCreatedAtAsc(rs, tie) == SortSeq(rs, LAMBDA a, b : Before(b, a, tie))

\* The heap is read newest row first, then sorted.
OrderByCreatedAtDesc(rs, tie) ==
  SortSeq([i \in 1..Len(rs) |-> rs[Len(rs) + 1 - i]], LAMBDA a, b : Before(a, b, tie))

\* LIMIT n.
LimitTo(s, n) == SubSeq(s, 1, IF Len(s) < n THEN Len(s) ELSE n)

\* str(row[3]): the timestamp as text.
TimestampStr(t) == [text |-> t]

\* The dict built from each fetched row.
PostDict(row) ==
  [id |-> row.id, username |-> row.username, content |-> row.content,
   created_at |-> TimestampStr(row.created_at)]

\* SELECT id, username, content, created_at FROM posts
\* ORDER BY created_at DESC LIMIT 50, then the loop over cur.fetchall().
SelectPosts(p) ==
  /\ req[p].op = "list" /\ req[p].pc = "execute"
  /\ \E tie \in BOOLEAN :
       LET fetched == LimitTo(OrderByCreatedAtDesc(rows, tie), Limit)
       IN Set(p, [req[p] EXCEPT !.pc = "close",
                    !.val = [i \in 1..Len(fetched) |-> PostDict(fetched[i])]])
  /\ UNCHANGED <<schema, rows, seq, clock, serving, base, committed>>

ListReturn(p) ==
  /\ req[p].op = "list" /\ req[p].pc = "close"
  /\ Set(p, [CloseAndReturn(req[p], [posts |-> req[p].val]) EXCEPT !.val = 0])
  /\ UNCHANGED <<schema, rows, seq, clock, serving, base, committed>>

\* --------------------------------------------------------- GET /stats
BeginStats(p) ==
  /\ Free(p) /\ serving
  /\ Set(p, [Idle EXCEPT !.op = "stats", !.pc = "connect"])
  /\ UNCHANGED <<schema, rows, seq, clock, serving, base, committed>>

\* Faulty variant of CountRows: MAX(id) instead of COUNT(*).
CountByMaxId(rs) == MaxId(rs)

\* COUNT(*) over the committed rows.
CountRows(rs) == Len(rs)

\* SELECT COUNT(*) FROM posts, then count = cur.fetchone()[0].
SelectCount(p) ==
  /\ req[p].op = "stats" /\ req[p].pc = "execute"
  /\ Set(p, [req[p] EXCEPT !.pc = "close", !.val = CountRows(rows)])
  /\ UNCHANGED <<schema, rows, seq, clock, serving, base, committed>>

StatsReturn(p) ==
  /\ req[p].op = "stats" /\ req[p].pc = "close"
  /\ Set(p, CloseAndReturn(req[p], [total_posts |-> req[p].val,
                                    docker_magic |-> "whale sparkles"]))
  /\ UNCHANGED <<schema, rows, seq, clock, serving, base, committed>>

\* The SELECT of get_posts or get_stats raises.
SelectFails(p) ==
  /\ req[p].op \in {"list", "stats"} /\ req[p].pc = "execute"
  /\ Set(p, Raise(req[p], "OperationalError"))
  /\ UNCHANGED <<schema, rows, seq, clock, serving, base, committed>>

Next ==
  \/ Tick
  \/ ClockSkew
  \/ \E p \in Procs :
       \/ GetDb(p)
       \/ GetDbFails(p)
       \/ BeginStartup(p)
       \/ CreateTableIfNotExists(p)
       \/ StartupExecuteFails(p)
       \/ StartupCommit(p)
       \/ StartupCommitFails(p)
       \/ StartupClose(p)
       \/ ReadRoot(p)
       \/ BeginCreate(p)
       \/ InsertPost(p)
       \/ InsertFails(p)
       \/ CommitPost(p)
       \/ CommitPostFails(p)
       \/ CreateReturn(p)
       \/ BeginList(p)
       \/ SelectPosts(p)
       \/ ListReturn(p)
       \/ BeginStats(p)
       \/ SelectCount(p)
       \/ StatsReturn(p)
       \/ SelectFails(p)

Spec == Init /\ [][Next]_vars

\* The service once startup() has returned, over an empty table or over one
\* that already holds PreRows posts: the requests that write and read the feed.
InitLoaded ==
  /\ base \in {0, PreRows}
  /\ schema = Columns
  /\ rows = Preloaded(base)
  /\ seq = base
  /\ clock = base
  /\ serving = TRUE
  /\ req = [p \in Procs |-> Idle]
  /\ committed = base

NextLoaded ==
  \/ Tick
  \/ ClockSkew
  \/ \E p \in Procs :
       \/ GetDb(p)
       \/ BeginCreate(p)
       \/ InsertPost(p)
       \/ CommitPost(p)
       \/ CreateReturn(p)
       \/ BeginList(p)
       \/ SelectPosts(p)
       \/ ListReturn(p)

SpecLoaded == InitLoaded /\ [][NextLoaded]_vars
\* ===================================================== the properties
\* Slot p takes this step, and after it runs a request of one of the kinds ops.
StepOf(p, ops) == req'[p] # req[p] /\ req'[p].op \in ops
Ids(rs) == {rs[i].id : i \in 1..Len(rs)}
RowsWithId(rs, id) == {i \in 1..Len(rs) : rs[i].id = id}
\* Both fields of the body are present and are strings.
BothStrings(body) == body.username.t = "str" /\ body.content.t = "str"

\* C1 (as stated): every create request with a valid body succeeds unless the
\* storage fails, the id it is given exceeds the id of every post created
\* before, and a list request run after the create returned includes the post
\* with that id, username and content.
C1_CreateThenList ==
  [][\A p \in Procs :
       /\ (StepOf(p, {"create"}) /\ BothStrings(req'[p].body) /\ req'[p].pc = "failed")
            => req'[p].err = "OperationalError"
       /\ (StepOf(p, {"create"}) /\ req'[p].pc = "commit" /\ req[p].pc = "execute")
            => req'[p].val > MaxId(rows)
       /\ (StepOf(p, {"list"}) /\ req'[p].pc = "close")
            => \A q \in Procs :
                 (req[q].op = "create" /\ req[q].pc = "done")
                   => \E i \in 1..Len(req'[p].val) :
                        /\ req'[p].val[i].id = req[q].ret.id
                        /\ req'[p].val[i].username = req[q].body.username.v
                        /\ req'[p].val[i].content = req[q].body.content.v]_vars

\* C2: the SELECT of get_posts returns min(50, number of rows) posts, each a
\* row of the table and no row twice, in non-increasing order of created_at,
\* and no row left out is newer than a row returned.
C2_ListNewestFifty ==
  [][\A p \in Procs :
       (StepOf(p, {"list"}) /\ req'[p].pc = "close") =>
         LET posts == req'[p].val
             n == Len(rows)
             got == {posts[i].id : i \in 1..Len(posts)}
         IN /\ Len(posts) = IF n < 50 THEN n ELSE 50
            /\ Cardinality(got) = Len(posts)
            /\ \A i \in 1..Len(posts) :
                 \E j \in 1..n : posts[i] = PostDict(rows[j])
            /\ \A i \in 1..Len(posts) - 1 :
                 posts[i].created_at.text >= posts[i + 1].created_at.text
            /\ \A j \in 1..n :
                 rows[j].id \notin got =>
                   \A i \in 1..Len(posts) :
                     rows[j].created_at <= posts[i].created_at.text]_vars

\* A list of 50 posts from a table of more, where a row left out is as old as
\* a post returned.
C2_Witness ==
  \E p \in Procs :
    /\ req[p].op = "list" /\ req[p].pc = "done"
    /\ Len(req[p].ret.posts) = 50
    /\ Len(rows) > 50
    /\ \E j \in 1..Len(rows) :
         /\ \A i \in 1..50 : req[p].ret.posts[i].id # rows[j].id
         /\ \E i \in 1..50 : req[p].ret.posts[i].created_at.text = rows[j].created_at

\* C3: the count a stats request reads is the number of committed INSERTs of
\* create_post (0 on an empty table), it is no smaller than the count any
\* earlier stats request read, and it is the total_posts that is returned.
C3_StatsCountsCommitted ==
  [][\A p \in Procs :
       /\ (StepOf(p, {"stats"}) /\ req'[p].pc = "close") =>
            /\ req'[p].val = committed
            /\ rows = << >> => req'[p].val = 0
            /\ \A q \in Procs :
                 (req[q].op = "stats" /\ req[q].pc \in {"close", "done"})
                   => req[q].val <= req'[p].val
       /\ (StepOf(p, {"stats"}) /\ req'[p].pc = "done") =>
            req'[p].ret.total_posts = req[p].val]_vars

C3_Witness ==
  \E p, q \in Procs :
    /\ req[p].op = "stats" /\ req[p].pc = "done" /\ req[p].ret.total_posts = 1
    /\ req[q].op = "create" /\ req[q].pc = "failed" /\ req[q].status = 500
    /\ seq > committed

\* C4: a create request whose body lacks a field, or holds a non-string in
\* one, is answered 422 without a connection, and that step changes neither
\* the table nor the sequence.
C4_InvalidBodyRejected ==
  [][\A p \in Procs :
       (StepOf(p, {"create"}) /\ ~BothStrings(req'[p].body)) =>
         /\ req'[p].pc = "failed" /\ req'[p].status = 422
         /\ req'[p].conn = "none"
         /\ UNCHANGED <<schema, rows, seq, committed>>]_vars

C4_Witness ==
  \E p \in Procs :
    /\ req[p].op = "create" /\ req[p].body.content = JAbsent
    /\ req[p].pc = "failed" /\ req[p].status = 422
    /\ Len(rows) = 1 /\ seq = 1

\* C5 (as stated): of two rows, the one committed earlier has the smaller id.
C5_CommitOrder ==
  \A i, j \in 1..Len(rows) : i < j => rows[i].id < rows[j].id

\* C5 (amended): no two rows share an id, and every INSERT draws an id greater
\* than every id drawn before it: the committed ones, the ones of transactions
\* still open, and the ones failed requests used up.
C5_InsertOrder ==
  [][/\ \A i, j \in 1..Len(rows') : i # j => rows'[i].id # rows'[j].id
     /\ \A p \in Procs :
          (StepOf(p, {"create"}) /\ req'[p].pc = "commit" /\ req[p].pc = "execute") =>
            /\ req'[p].row.id > seq
            /\ \A k \in Ids(rows) : req'[p].row.id > k
            /\ \A q \in Procs :
                 req[q].pending = "row" => req'[p].row.id > req[q].row.id]_vars

C5_Witness ==
  /\ Len(rows) = 2
  /\ rows[1].id > rows[2].id
  /\ \A p \in Procs : req[p].op = "create" /\ req[p].pc = "done"

\* C6: a committed row stays as it is in every later state; requests to /,
\* /posts and /stats change nothing of the table, and startup changes no row.
C6_RowsPersist ==
  [][/\ Len(rows') >= Len(rows)
     /\ \A i \in 1..Len(rows) : rows'[i] = rows[i]
     /\ \A p \in Procs :
          /\ StepOf(p, {"root", "list", "stats"}) => UNCHANGED <<schema, rows, seq>>
          /\ StepOf(p, {"startup"}) => rows' = rows]_vars

C6_Witness ==
  \E p, q \in Procs :
    /\ req[p].op = "startup" /\ req[p].pc = "done"
    /\ req[q].op = "list" /\ req[q].pc = "done"
    /\ Len(rows) = 2

\* C7: startup creates the table, empty and with the documented columns, when
\* there is none, and otherwise leaves the columns, the rows and the sequence
\* as they are; when it has returned the table exists.
C7_StartupIdempotent ==
  [][\A p \in Procs :
       StepOf(p, {"startup"}) =>
         /\ schema # NoTable => UNCHANGED <<schema, rows, seq>>
         /\ schema = NoTable =>
              /\ schema' \in {NoTable, Columns}
              /\ rows' = << >> /\ seq' = seq
         /\ req'[p].pc = "done" => schema' = Columns]_vars

C7_Witness ==
  \E p \in Procs :
    /\ req[p].op = "startup" /\ req[p].pc = "done"
    /\ Len(rows) >= 1 /\ seq > Len(rows)
    /\ schema = Columns

\* C8: GET / is answered 200 with the one static message and never holds a
\* connection, whatever the state of the database.
C8_RootStatic ==
  \A p \in Procs :
    req[p].op = "root" =>
      /\ req[p].pc = "done" /\ req[p].status = 200
      /\ req[p].ret = [message |-> "DevOps Social API is live!"]
      /\ req[p].conn = "none"

C8_Witness ==
  \E p, q \in Procs :
    /\ req[p].op = "root" /\ req[p].pc = "done"
    /\ req[q].op = "list" /\ req[q].pc = "failed"
    /\ req[q].err = "OperationalError" /\ req[q].conn = "none"

\* C9 (as stated): a request that has ended, in success or in failure, holds
\* no open connection.
C9_ConnectionsClosed ==
  \A p \in Procs : Ended(p) => req[p].conn \in {"none", "closed"}

=============================================================================
